---------------------------- MODULE Spec2Model ----------------------------
(***************************************************************************)
(* Model of the telemetry aggregation layer of src/monitor/app.py:         *)
(*   - get_network_stats  (the rate sampler with its process-wide sample)  *)
(*   - get_sync_stats     (sync-log and transfer-log aggregation)          *)
(*   - get_upload_progress (process list + transfer-log tail)              *)
(*   - parse_log_file behind the two log endpoints                         *)
(*   - get_cloud_stats, get_cloud_quota (the rclone client)                *)
(*   - get_service_status, get_system_info (the probes of the host)        *)
(*   - login, logout, change_password and the login_required decorator     *)
(*                                                                         *)
(* Text is modelled as a sequence of tokens.  A token is a string standing *)
(* for the characters it spells; " " is one blank.  A Python substring     *)
(* test and the regular expressions of the source are evaluated on the     *)
(* token sequence the way re.search evaluates them on the characters.      *)
(* Python's None is the empty sequence, a present value v is <<v>>.        *)
(***************************************************************************)
EXTENDS Integers, Sequences, FiniteSets, TLC

\* ------------------------------------------------------------------ bounds
\* requests (login, logout, guarded endpoints) made in one run
MaxRequests == 4
\* largest 'lines' value a log request passes in its query string
MaxLinesArg == 3
\* calls of get_network_stats made in one run
MaxCalls == 3
\* clock ticks in one run (one tick is 10 seconds)
MaxTicks == 3
\* log lines written in one run
MaxWrites == 3

\* ------------------------------------------------------- Python's Optional
None == <<>>
Some(v) == <<v>>
IsNone(o) == o = <<>>
Val(o) == o[1]

\* ------------------------------------------------------------- arithmetic
Abs(x) == IF x < 0 THEN -x ELSE x

\* int(a / b) for b > 0: Python's int() truncates toward zero
TruncDiv(a, b) == IF a >= 0 THEN a \div b ELSE -((-a) \div b)

\* nearest integer to a / b (b > 0), ties to the even neighbour: the value of
\* round(x, 2) counted in hundredths when a / b is 100 * x
RoundDiv(a, b) ==
  LET n == Abs(a)
      q == n \div b
      r == n % b
      m == IF 2 * r > b THEN q + 1
           ELSE IF 2 * r < b THEN q
           ELSE IF q % 2 = 0 THEN q ELSE q + 1
  IN  IF a >= 0 THEN m ELSE -m

\* 1024 * 1024 and 1024 ** 3
MiB == 1024 * 1024
GiB == 1024 * 1024 * 1024

\* ===================================================== get_network_stats
VARIABLES
  now,                \* datetime.now(), in seconds
  last_net_io,        \* _last_net_io: None or Some(counters)
  last_net_io_time,   \* _last_net_io_time: None or Some(seconds)
  wr,                 \* history: the call that wrote each of the two globals
  calls,              \* history: number of calls begun
  pc,                 \* per request thread: position in get_network_stats
  loc                 \* per request thread: the call's locals

netvars == <<now, last_net_io, last_net_io_time, wr, calls, pc, loc>>

VARIABLES
  sync_log,           \* the file SYNC_LOG_FILE: None (missing) or Some(lines)
  rclone_log,         \* the file RCLONE_LOG_FILE: None (missing) or Some(lines)
  procs,              \* the processes psutil.process_iter yields
  writes,             \* history: number of log lines written
  sync_ret,           \* what get_sync_stats returned in this state, if called
  upload_ret          \* what get_upload_progress returned in this state, if called

textvars == <<sync_log, rclone_log, procs, writes, sync_ret, upload_ret>>

VARIABLES
  logs_ret,           \* what /api/logs/sync or /api/logs/rclone answered, if asked
  rclone_size,        \* how `rclone size ... --json` would end now
  rclone_about,       \* how `rclone about gd: --json` would end now
  systemctl_active,   \* how `systemctl is-active` would end now
  systemctl_status,   \* how `systemctl status --no-pager` would end now
  psutil_ok,          \* whether the psutil queries of get_system_info succeed now
  cloud_ret,          \* what get_cloud_stats returned in this state, if called
  quota_ret,          \* what get_cloud_quota returned in this state, if called
  service_ret,        \* what get_service_status returned in this state, if called
  system_ret          \* what get_system_info returned in this state, if called

toolvars == <<logs_ret, rclone_size, rclone_about, systemctl_active,
              systemctl_status, psutil_ok, cloud_ret, quota_ret, service_ret,
              system_ret>>

VARIABLES
  session,            \* per browser: the signed session cookie's 'username'
  USERS,              \* the credential table
  by_login,           \* history: per browser, the session is owed to a /login
  requests,           \* history: number of requests made
  resp                \* the last response: None or Some(record)

authvars == <<session, USERS, by_login, requests, resp>>

vars == <<netvars, textvars, toolvars, authvars>>

\* request threads of the server
Threads == {"t1", "t2"}

\* what psutil.net_io_counters() can return: the totals over all interfaces;
\* they grow with traffic and shrink when an interface disappears
Counters(s, r) == [bytes_sent |-> s, bytes_recv |-> r]
NetSamples ==
  { Counters(100, 200), Counters(1100, 200), Counters(50, 100),
    Counters(2621540, 1310920) }

\* mutant of BaseStats: the speeds start from the totals
BaseStatsSpeedFromTotals(io) ==
  [ total_sent |-> io.bytes_sent,
    total_recv |-> io.bytes_recv,
    total_sent_gb |-> RoundDiv(io.bytes_sent * 100, GiB),
    total_recv_gb |-> RoundDiv(io.bytes_recv * 100, GiB),
    upload_speed |-> io.bytes_sent,
    download_speed |-> io.bytes_recv,
    upload_speed_mbps |-> 0,
    download_speed_mbps |-> 0 ]

\* the record built at lines 274-283
BaseStats(io) ==
  [ total_sent |-> io.bytes_sent,
    total_recv |-> io.bytes_recv,
    total_sent_gb |-> RoundDiv(io.bytes_sent * 100, GiB),
    total_recv_gb |-> RoundDiv(io.bytes_recv * 100, GiB),
    upload_speed |-> 0,
    download_speed |-> 0,
    upload_speed_mbps |-> 0,
    download_speed_mbps |-> 0 ]

\* the record returned by the except branch, lines 306-311
ErrorStats ==
  [ total_sent |-> 0, total_recv |-> 0,
    total_sent_gb |-> 0, total_recv_gb |-> 0,
    upload_speed |-> 0, download_speed |-> 0,
    upload_speed_mbps |-> 0, download_speed_mbps |-> 0 ]

\* mutant of Speed: the difference taken the wrong way round
SpeedReversed(cur, prev, time_delta) == TruncDiv(prev - cur, time_delta)

\* lines 290 and 293: bytes per second, integer part
Speed(cur, prev, time_delta) == TruncDiv(cur - prev, time_delta)

\* lines 290 and 296: round(speed * 8 / (1024 * 1024), 2), in hundredths
SpeedMbps(cur, prev, time_delta) ==
  RoundDiv((cur - prev) * 8 * 100, time_delta * MiB)

InitLoc ==
  [ id |-> 0,
    obtained |-> FALSE,
    current_net_io |-> Counters(0, 0),
    current_time |-> 0,
    time_delta |-> 0,
    prev_time |-> None,  prev_sent |-> None,  prev_recv |-> None,
    src_time |-> 0,  src_sent |-> 0,  src_recv |-> 0,
    rated |-> FALSE,
    stats |-> ErrorStats ]

NetInit ==
  /\ now = 0
  /\ last_net_io = None
  /\ last_net_io_time = None
  /\ wr = [io |-> 0, time |-> 0]
  /\ calls = 0
  /\ pc = [t \in Threads |-> "idle"]
  /\ loc = [t \in Threads |-> InitLoc]

\* the wall clock advances
Tick ==
  /\ now < 10 * MaxTicks
  /\ now' = now + 10
  /\ UNCHANGED <<last_net_io, last_net_io_time, wr, calls, pc, loc>>

\* a request enters get_network_stats
Begin(t) ==
  /\ pc[t] = "idle"
  /\ calls < MaxCalls
  /\ calls' = calls + 1
  /\ loc' = [loc EXCEPT ![t] = [InitLoc EXCEPT !.id = calls + 1]]
  /\ pc' = [pc EXCEPT ![t] = "l270"]
  /\ UNCHANGED <<now, last_net_io, last_net_io_time, wr>>

\* line 270: current_net_io = psutil.net_io_counters()
L270(t) ==
  /\ pc[t] = "l270"
  /\ \E io \in NetSamples :
       loc' = [loc EXCEPT ![t].current_net_io = io, ![t].obtained = TRUE]
  /\ pc' = [pc EXCEPT ![t] = "l271"]
  /\ UNCHANGED <<now, last_net_io, last_net_io_time, wr, calls>>

\* line 270 raises (no counters available): the except branch, lines 304-311
L270Fail(t) ==
  /\ pc[t] = "l270"
  /\ loc' = [loc EXCEPT ![t].stats = ErrorStats]
  /\ pc' = [pc EXCEPT ![t] = "ret"]
  /\ UNCHANGED <<now, last_net_io, last_net_io_time, wr, calls>>

\* lines 271-283: current_time = datetime.now(); stats = {...}
L271(t) ==
  /\ pc[t] = "l271"
  /\ loc' = [loc EXCEPT ![t].current_time = now,
                        ![t].stats = BaseStats(loc[t].current_net_io)]
  /\ pc' = [pc EXCEPT ![t] = "l286"]
  /\ UNCHANGED <<now, last_net_io, last_net_io_time, wr, calls>>

\* line 286, first operand: _last_net_io is not None
L286(t) ==
  /\ pc[t] = "l286"
  /\ pc' = [pc EXCEPT ![t] = IF IsNone(last_net_io) THEN "l300" ELSE "l286b"]
  /\ UNCHANGED <<now, last_net_io, last_net_io_time, wr, calls, loc>>

\* line 286, second operand: _last_net_io_time is not None
L286b(t) ==
  /\ pc[t] = "l286b"
  /\ pc' = [pc EXCEPT ![t] = IF IsNone(last_net_io_time) THEN "l300" ELSE "l287"]
  /\ UNCHANGED <<now, last_net_io, last_net_io_time, wr, calls, loc>>

\* lines 287-288: time_delta = (current_time - _last_net_io_time); if > 0
L287(t) ==
  /\ pc[t] = "l287"
  /\ LET d == loc[t].current_time - Val(last_net_io_time)
     IN  /\ loc' = [loc EXCEPT ![t].time_delta = d,
                               ![t].prev_time = last_net_io_time,
                               ![t].src_time = wr.time]
         /\ pc' = [pc EXCEPT ![t] = IF d > 0 THEN "l290" ELSE "l300"]
  /\ UNCHANGED <<now, last_net_io, last_net_io_time, wr, calls>>

\* line 290 (with 293, 296): upload speed from _last_net_io.bytes_sent
L290(t) ==
  /\ pc[t] = "l290"
  /\ LET prev == Val(last_net_io).bytes_sent
         cur == loc[t].current_net_io.bytes_sent
     IN  loc' = [loc EXCEPT
           ![t].prev_sent = Some(prev),
           ![t].src_sent = wr.io,
           ![t].stats.upload_speed = Speed(cur, prev, loc[t].time_delta),
           ![t].stats.upload_speed_mbps = SpeedMbps(cur, prev, loc[t].time_delta)]
  /\ pc' = [pc EXCEPT ![t] = "l291"]
  /\ UNCHANGED <<now, last_net_io, last_net_io_time, wr, calls>>

\* line 291 (with 294, 297): download speed from _last_net_io.bytes_recv
L291(t) ==
  /\ pc[t] = "l291"
  /\ LET prev == Val(last_net_io).bytes_recv
         cur == loc[t].current_net_io.bytes_recv
     IN  loc' = [loc EXCEPT
           ![t].prev_recv = Some(prev),
           ![t].src_recv = wr.io,
           ![t].rated = TRUE,
           ![t].stats.download_speed = Speed(cur, prev, loc[t].time_delta),
           ![t].stats.download_speed_mbps = SpeedMbps(cur, prev, loc[t].time_delta)]
  /\ pc' = [pc EXCEPT ![t] = "l300"]
  /\ UNCHANGED <<now, last_net_io, last_net_io_time, wr, calls>>

\* line 300: _last_net_io = current_net_io
L300(t) ==
  /\ pc[t] = "l300"
  /\ last_net_io' = Some(loc[t].current_net_io)
  /\ wr' = [wr EXCEPT !.io = loc[t].id]
  /\ pc' = [pc EXCEPT ![t] = "l301"]
  /\ UNCHANGED <<now, last_net_io_time, calls, loc>>

\* line 301: _last_net_io_time = current_time
L301(t) ==
  /\ pc[t] = "l301"
  /\ last_net_io_time' = Some(loc[t].current_time)
  /\ wr' = [wr EXCEPT !.time = loc[t].id]
  /\ pc' = [pc EXCEPT ![t] = "ret"]
  /\ UNCHANGED <<now, last_net_io, calls, loc>>

\* line 303 (or 306): return stats; the thread serves the next request
Return(t) ==
  /\ pc[t] = "ret"
  /\ pc' = [pc EXCEPT ![t] = "idle"]
  /\ loc' = [loc EXCEPT ![t] = InitLoc]
  /\ UNCHANGED <<now, last_net_io, last_net_io_time, wr, calls>>

NetStep(t) ==
  \/ L270(t) \/ L270Fail(t) \/ L271(t) \/ L286(t) \/ L286b(t) \/ L287(t)
  \/ L290(t) \/ L291(t) \/ L300(t) \/ L301(t) \/ Return(t)

\* ================================================================== text
Min(S) == CHOOSE x \in S : \A y \in S : x <= y

\* the token at position i, "" outside the line
At(line, i) == IF i >= 1 /\ i <= Len(line) THEN line[i] ELSE ""

\* Python's  tok in line
Contains(line, tok) == \E i \in 1..Len(line) : line[i] = tok

\* Python's  'ab' in line  for a marker spelled by two tokens
Contains2(line, a, b) == \E i \in 1..Len(line) : line[i] = a /\ At(line, i + 1) = b

\* the first position >= k holding tok, 0 when there is none
IndexFrom(line, k, tok) ==
  LET S == {j \in k..Len(line) : line[j] = tok}
  IN  IF S = {} THEN 0 ELSE Min(S)

\* the first position >= k holding something else than a blank, 0 when none
SkipBlanks(line, k) ==
  LET S == {j \in k..Len(line) : line[j] # " "}
  IN  IF S = {} THEN 0 ELSE Min(S)

RECURSIVE LStrip(_)
LStrip(s) == IF s # <<>> /\ Head(s) = " " THEN LStrip(Tail(s)) ELSE s

RECURSIVE RStrip(_)
RStrip(s) ==
  IF s # <<>> /\ s[Len(s)] = " " THEN RStrip(SubSeq(s, 1, Len(s) - 1)) ELSE s

\* str.strip()
Strip(s) == RStrip(LStrip(s))

Reverse(s) == [i \in 1..Len(s) |-> s[Len(s) + 1 - i]]

\* the tokens that spell decimal digits, and int() of each
DigitTokens == {"0", "00", "1", "3", "10", "11", "20", "50", "52", "60", "100"}
IsDigits(tok) == tok \in DigitTokens
IntOf(tok) ==
  CASE tok = "0" -> 0 [] tok = "00" -> 0 [] tok = "1" -> 1 [] tok = "3" -> 3
    [] tok = "10" -> 10 [] tok = "11" -> 11 [] tok = "20" -> 20 [] tok = "50" -> 50
    [] tok = "52" -> 52 [] tok = "60" -> 60 [] tok = "100" -> 100

\* truth value of an optional string: None and '' are false
Truthy(o) == ~IsNone(o) /\ Val(o) # <<>>

\* ------------------------------------------------------- parse_log_file
\* lines[start:] for any integer start
SliceFrom(lines, start) ==
  LET n == Len(lines)
      from == IF start < 0 THEN (IF n + start > 0 THEN n + start ELSE 0)
              ELSE (IF start < n THEN start ELSE n)
  IN  SubSeq(lines, from + 1, n)

\* lines 71-82; a file is None when it does not exist, else Some(its lines)
parse_log_file(file, max_lines) ==
  IF IsNone(file) THEN <<>>
  ELSE LET tail == SliceFrom(Val(file), -max_lines)
       IN  [i \in 1..Len(tail) |-> Strip(tail[i])]

\* ------------------------------------------------- the regular expressions
\* line 207:  re.search(r'已移动 (\d+)MB.*?(\d+) 个文件', log)
\* "MOVED_ZH" spells 已移动 and "FILES_ZH" spells 个文件
MovedCountPos(line, i) ==
  LET S == {k \in (i + 4)..Len(line) :
              IsDigits(line[k]) /\ At(line, k + 1) = " " /\ At(line, k + 2) = "FILES_ZH"}
  IN  IF S = {} THEN 0 ELSE Min(S)

MovedAt(line, i) ==
  /\ line[i] = "MOVED_ZH"
  /\ At(line, i + 1) = " "
  /\ IsDigits(At(line, i + 2))
  /\ At(line, i + 3) = "MB"
  /\ MovedCountPos(line, i) # 0

SearchMoved(line) ==
  LET S == {i \in 1..Len(line) : MovedAt(line, i)}
  IN  IF S = {} THEN None
      ELSE LET i == Min(S)
           IN  Some([size_mb |-> IntOf(line[i + 2]),
                     file_count |-> IntOf(line[MovedCountPos(line, i)])])

\* line 215:  re.search(r'\[([^\]]+)\]', log)
BracketAt(line, i) ==
  /\ line[i] = "["
  /\ IndexFrom(line, i + 1, "]") >= i + 2

SearchBracket(line) ==
  LET S == {i \in 1..Len(line) : BracketAt(line, i)}
  IN  IF S = {} THEN None
      ELSE LET i == Min(S)
           IN  Some(SubSeq(line, i + 1, IndexFrom(line, i + 1, "]") - 1))

\* line 227:  re.search(r': ([^:]+): (Copied|Moved)', log)
CompletedAt(line, i) ==
  /\ line[i] = ":"
  /\ At(line, i + 1) = " "
  /\ LET j == IndexFrom(line, i + 2, ":")
     IN  /\ j >= i + 3
         /\ At(line, j + 1) = " "
         /\ At(line, j + 2) \in {"Copied", "Moved"}

SearchCompleted(line) ==
  LET S == {i \in 1..Len(line) : CompletedAt(line, i)}
  IN  IF S = {} THEN None
      ELSE LET i == Min(S)
               j == IndexFrom(line, i + 2, ":")
           IN  Some([name |-> SubSeq(line, i + 2, j - 1), action |-> line[j + 2]])

\* line 376:  re.search(r': ([^:]+):', log)
FileAt(line, i) ==
  /\ line[i] = ":"
  /\ At(line, i + 1) = " "
  /\ IndexFrom(line, i + 2, ":") >= i + 3

SearchFile(line) ==
  LET S == {i \in 1..Len(line) : FileAt(line, i)}
  IN  IF S = {} THEN None
      ELSE LET i == Min(S)
           IN  Some(SubSeq(line, i + 2, IndexFrom(line, i + 2, ":") - 1))

\* line 369:  re.search(r'Transferred:\s+([^,]+),\s+(\d+)%,\s+([^,]+)', log)
\* the end of group 3: the last position before the next comma
SpeedEnd(line, p) ==
  LET c == IndexFrom(line, p + 3, ",")
  IN  IF c = 0 THEN Len(line) ELSE c - 1

\* the position of the digits of group 2, 0 when the match fails
PercentPos(line, i) ==
  LET c == IndexFrom(line, i + 3, ",")
      p == IF c = 0 THEN 0 ELSE SkipBlanks(line, c + 1)
  IN  IF /\ At(line, i + 2) = " "
         /\ c >= i + 4
         /\ At(line, c + 1) = " "
         /\ p # 0
         /\ IsDigits(line[p])
         /\ At(line, p + 1) = "%"
         /\ At(line, p + 2) = ","
         /\ At(line, p + 3) = " "
         /\ SpeedEnd(line, p) >= p + 4
      THEN p ELSE 0

TransferredAt(line, i) ==
  /\ line[i] = "Transferred"
  /\ At(line, i + 1) = ":"
  /\ PercentPos(line, i) # 0

SearchTransferred(line) ==
  LET S == {i \in 1..Len(line) : TransferredAt(line, i)}
  IN  IF S = {} THEN None
      ELSE LET p == PercentPos(line, Min(S))
               e == SpeedEnd(line, p)
               k == SkipBlanks(line, p + 3)
           IN  Some([percent |-> line[p],
                     speed |-> IF k # 0 /\ k <= e THEN SubSeq(line, k, e) ELSE <<" ">>])

\* ========================================================= get_sync_stats
\* max_lines of the three tail reads and the cap of recent_files
SyncTail == 500
RcloneTail == 100
ProgressTail == 50
RecentCap == 10

\* lines 190-197
InitStats ==
  [ total_synced |-> 0, total_size_mb |-> 0, success_count |-> 0,
    error_count |-> 0, last_sync |-> None, recent_files |-> <<>> ]

\* mutant of SuccessLine: last_sync is overwritten by every stamped success line
SuccessLineLastWins(stats, log) ==
  LET match == SearchMoved(log)
      time_match == SearchBracket(log)
      s1 == [stats EXCEPT !.success_count = @ + 1]
      s2 == IF ~IsNone(match)
            THEN [s1 EXCEPT !.total_synced = @ + Val(match).file_count,
                            !.total_size_mb = @ + Val(match).size_mb]
            ELSE s1
  IN  IF ~IsNone(time_match)
      THEN [s2 EXCEPT !.last_sync = time_match]
      ELSE s2

\* lines 204-217: a line holding the success marker ("SYNC_OK" spells 同步成功)
SuccessLine(stats, log) ==
  LET match == SearchMoved(log)
      time_match == SearchBracket(log)
      s1 == [stats EXCEPT !.success_count = @ + 1]
      s2 == IF ~IsNone(match)
            THEN [s1 EXCEPT !.total_synced = @ + Val(match).file_count,
                            !.total_size_mb = @ + Val(match).size_mb]
            ELSE s1
  IN  IF ~IsNone(time_match) /\ ~Truthy(s2.last_sync)
      THEN [s2 EXCEPT !.last_sync = time_match]
      ELSE s2

\* mutant of SyncLine: the error test is an elif of the success test
SyncLineElif(stats, log) ==
  IF Contains(log, "SYNC_OK") THEN SuccessLine(stats, log)
  ELSE IF Contains(log, "ERROR") THEN [stats EXCEPT !.error_count = @ + 1]
  ELSE stats

\* mutant of SyncLine: a moved fragment is summed whatever the line's marker
SyncLineAnyMoved(stats, log) ==
  LET s1 == IF Contains(log, "SYNC_OK") \/ ~IsNone(SearchMoved(log))
            THEN SuccessLine(stats, log) ELSE stats
  IN  IF Contains(log, "ERROR") THEN [s1 EXCEPT !.error_count = @ + 1] ELSE s1

\* lines 203-221: the body of the loop over the sync log
SyncLine(stats, log) ==
  LET s1 == IF Contains(log, "SYNC_OK") THEN SuccessLine(stats, log) ELSE stats
  IN  IF Contains(log, "ERROR") THEN [s1 EXCEPT !.error_count = @ + 1] ELSE s1

\* line 202: for log in logs
RECURSIVE ScanSync(_, _)
ScanSync(logs, stats) ==
  IF logs = <<>> THEN stats ELSE ScanSync(Tail(logs), SyncLine(stats, Head(logs)))

\* mutant of RecentLine: the cap is tested with <= instead of <
RecentLineOffByOne(stats, log) ==
  IF Contains(log, "INFO") /\ (Contains(log, "Copied") \/ Contains(log, "Moved"))
  THEN LET match == SearchCompleted(log)
       IN  IF ~IsNone(match) /\ Len(stats.recent_files) <= RecentCap
           THEN [stats EXCEPT !.recent_files =
                   Append(@, [name |-> Strip(Val(match).name),
                              action |-> Val(match).action])]
           ELSE stats
  ELSE stats

\* lines 226-234: the body of the loop over the transfer log
RecentLine(stats, log) ==
  IF Contains(log, "INFO") /\ (Contains(log, "Copied") \/ Contains(log, "Moved"))
  THEN LET match == SearchCompleted(log)
       IN  IF ~IsNone(match) /\ Len(stats.recent_files) < RecentCap
           THEN [stats EXCEPT !.recent_files =
                   Append(@, [name |-> Strip(Val(match).name),
                              action |-> Val(match).action])]
           ELSE stats
  ELSE stats

RECURSIVE ScanRecent(_, _)
ScanRecent(logs, stats) ==
  IF logs = <<>> THEN stats ELSE ScanRecent(Tail(logs), RecentLine(stats, Head(logs)))

\* lines 188-239
get_sync_stats(sync_file, rclone_file) ==
  LET logs == parse_log_file(sync_file, SyncTail)
      rclone_logs == parse_log_file(rclone_file, RcloneTail)
  IN  ScanRecent(Reverse(rclone_logs), ScanSync(logs, InitStats))

\* ===================================================== get_upload_progress
\* mutant of IsTransfer: the arguments are not looked at
IsTransferByName(proc) == proc.name = "rclone"

\* lines 352-354: a process of psutil.process_iter that counts as a transfer
IsTransfer(proc) ==
  /\ proc.name = "rclone"
  /\ \/ Contains(proc.cmdline, "move")
     \/ Contains(proc.cmdline, "copy")
     \/ Contains(proc.cmdline, "sync")

\* lines 358-361
InitScan == [current_file |-> None, progress |-> None, speed |-> None]

\* lines 366-372
ProgressLine(acc, log) ==
  IF Contains2(log, "Transferred", ":")
  THEN LET match == SearchTransferred(log)
       IN  IF ~IsNone(match)
           THEN [acc EXCEPT !.progress = Some(IntOf(Val(match).percent)),
                            !.speed = Some(Strip(Val(match).speed))]
           ELSE acc
  ELSE acc

\* mutant of FileLine: every matching line overwrites current_file
FileLineLastWins(acc, log) ==
  IF /\ Contains(log, "INFO")
     /\ (Contains(log, "Copied") \/ Contains(log, "Moved") \/ Contains(log, ":"))
  THEN LET match == SearchFile(log)
       IN  IF ~IsNone(match)
           THEN [acc EXCEPT !.current_file = Some(Strip(Val(match)))]
           ELSE acc
  ELSE acc

\* lines 375-378
FileLine(acc, log) ==
  IF /\ Contains(log, "INFO")
     /\ (Contains(log, "Copied") \/ Contains(log, "Moved") \/ Contains(log, ":"))
  THEN LET match == SearchFile(log)
       IN  IF ~IsNone(match) /\ ~Truthy(acc.current_file)
           THEN [acc EXCEPT !.current_file = Some(Strip(Val(match)))]
           ELSE acc
  ELSE acc

\* lines 364-378: for log in reversed(logs)
RECURSIVE ScanProgress(_, _)
ScanProgress(logs, acc) ==
  IF logs = <<>> THEN acc
  ELSE ScanProgress(Tail(logs), FileLine(ProgressLine(acc, Head(logs)), Head(logs)))

\* line 380: if current_file or progress
Found(acc) == Truthy(acc.current_file) \/ (~IsNone(acc.progress) /\ Val(acc.progress) # 0)

\* lines 381-387 ("processing..." spells 处理中..., "uploading" spells 正在上传)
UploadingResult(acc) ==
  [ is_uploading |-> TRUE,
    current_file |-> IF Truthy(acc.current_file) THEN acc.current_file
                     ELSE Some(<<"processing...">>),
    progress |-> IF ~IsNone(acc.progress) /\ Val(acc.progress) # 0
                 THEN Val(acc.progress) ELSE 0,
    speed |-> IF Truthy(acc.speed) THEN Val(acc.speed) ELSE <<"N/A">>,
    status |-> "uploading" ]

\* lines 390-396 ("idle" spells 空闲)
IdleResult ==
  [ is_uploading |-> FALSE, current_file |-> None, progress |-> 0,
    speed |-> <<"N/A">>, status |-> "idle" ]

\* lines 347-396; table is the set of processes process_iter yields: every
\* transfer process leads to the same scan of the same file, so the order of
\* the iteration does not show in the result
get_upload_progress(table, rclone_file) ==
  LET acc == ScanProgress(Reverse(parse_log_file(rclone_file, ProgressTail)), InitScan)
  IN  IF (\E proc \in table : IsTransfer(proc)) /\ Found(acc)
      THEN UploadingResult(acc)
      ELSE IdleResult

\* ============================================================ environment
\* lines of the sync log (section 6 of the specification, line grammar)
S_ok1 ==
  << "[", "2024-01-01", " ", "10", ":", "00", "]", " ", "SYNC_OK", " ",
     "MOVED_ZH", " ", "50", "MB", ",", " ", "3", " ", "FILES_ZH" >>
S_ok2 == << "[", "2024-01-01", " ", "11", ":", "00", "]", " ", "SYNC_OK" >>
S_ok3 == << "SYNC_OK", " ", "MOVED_ZH", " ", "20", "MB", " ", "1", " ", "FILES_ZH" >>
S_err ==
  << "[", "2024-01-01", " ", "11", ":", "00", "]", " ", "ERROR", " ",
     "MOVED_ZH", " ", "50", "MB", " ", "3", " ", "FILES_ZH" >>
S_both == << "[", "2024-01-01", " ", "10", ":", "00", "]", " ", "SYNC_OK", " ", "ERROR" >>
S_start == << "[", "2024-01-01", " ", "10", ":", "00", "]", " ", "start" >>
SyncLines == {S_ok1, S_ok2, S_ok3, S_err, S_both, S_start}

\* lines of the transfer tool's log
R_copied == << "INFO", " ", ":", " ", "a.txt", ":", " ", "Copied" >>
R_moved == << "INFO", " ", ":", " ", "b.txt", ":", " ", "Moved" >>
R_nomatch == << "INFO", " ", "Copied", " ", "a.txt" >>
R_debug == << "DEBUG", " ", ":", " ", "a.txt", ":", " ", "Copied" >>
R_t60 == << "Transferred", ":", " ", "1GiB", ",", " ", "60", "%", ",", " ", "5MiB/s" >>
R_t52 ==
  << "Transferred", ":", " ", "1GiB", ",", " ", "52", "%", ",", " ", "10MiB/s",
     ",", " ", "ETA" >>
R_t0 == << "Transferred", ":", " ", "0B", ",", " ", "0", "%", ",", " ", "0B/s" >>
R_tcount == << "Transferred", ":", " ", "5/10", ",", " ", "50", "%" >>
R_blank == << "INFO", ":", " ", " ", ":" >>
R_notice == << "NOTICE", " ", "x", " " >>
RcloneLines ==
  { R_copied, R_moved, R_nomatch, R_debug, R_t60, R_t52, R_t0, R_tcount,
    R_blank, R_notice }

\* what an earlier transfer left in the log: ten completion lines
R_earlier ==
  << R_copied, R_moved, R_copied, R_moved, R_copied,
     R_moved, R_copied, R_moved, R_copied, R_moved >>

\* processes that can show up in the process table
P_move == [name |-> "rclone", cmdline |-> << "rclone", "move", "src", "dst" >>]
P_size == [name |-> "rclone", cmdline |-> << "rclone", "size", "remote", "--json" >>]
P_copy == [name |-> "python", cmdline |-> << "python", "copy" >>]
ProcKinds == {P_move, P_size, P_copy}

\* f.write(line + '\n') by the writer of the file, which creates it if missing
Written(file, line) == IF IsNone(file) THEN Some(<<line>>) ELSE Some(Append(Val(file), line))

TextIdle ==
  /\ sync_log = None
  /\ rclone_log = None
  /\ procs = {}
  /\ writes = 0
  /\ sync_ret = None
  /\ upload_ret = None

\* the sync pipeline logs a line
SyncLogWrite ==
  /\ writes < MaxWrites
  /\ \E line \in SyncLines : sync_log' = Written(sync_log, line)
  /\ writes' = writes + 1
  /\ sync_ret' = None
  /\ upload_ret' = None
  /\ UNCHANGED <<rclone_log, procs>>

\* the transfer tool logs a line
RcloneLogWrite ==
  /\ writes < MaxWrites
  /\ \E line \in RcloneLines : rclone_log' = Written(rclone_log, line)
  /\ writes' = writes + 1
  /\ sync_ret' = None
  /\ upload_ret' = None
  /\ UNCHANGED <<sync_log, procs>>

\* a process starts
ProcStart ==
  /\ \E p \in ProcKinds \ procs : procs' = procs \cup {p}
  /\ sync_ret' = None
  /\ upload_ret' = None
  /\ UNCHANGED <<sync_log, rclone_log, writes>>

\* a process exits
ProcExit ==
  /\ \E p \in procs : procs' = procs \ {p}
  /\ sync_ret' = None
  /\ upload_ret' = None
  /\ UNCHANGED <<sync_log, rclone_log, writes>>

\* a request calls get_sync_stats
GetSyncStats ==
  /\ sync_ret' = Some(get_sync_stats(sync_log, rclone_log))
  /\ UNCHANGED <<sync_log, rclone_log, procs, writes, upload_ret>>

\* a request calls get_upload_progress
GetUploadProgress ==
  /\ upload_ret' = Some(get_upload_progress(procs, rclone_log))
  /\ UNCHANGED <<sync_log, rclone_log, procs, writes, sync_ret>>

\* ================================== /api/logs/sync and /api/logs/rclone
\* request.args.get('lines', 100, type=int): the value when the query
\* string has no usable 'lines'
LinesDefault == 100

\* the values of `lines`: the default, or the integer of the query string
LinesArgs == (-1 .. MaxLinesArg) \cup {LinesDefault}

\* the body of api_logs_sync and of api_logs_rclone, for their file
api_logs(file, lines) == [logs |-> parse_log_file(file, lines)]

\* GET /api/logs/sync?lines=...
ApiLogsSync ==
  /\ \E lines \in LinesArgs :
       logs_ret' = Some([file |-> "sync", lines |-> lines,
                         body |-> api_logs(sync_log, lines)])
  /\ UNCHANGED <<rclone_size, rclone_about, systemctl_active, systemctl_status,
                 psutil_ok, cloud_ret, quota_ret, service_ret, system_ret>>

\* GET /api/logs/rclone?lines=...
ApiLogsRclone ==
  /\ \E lines \in LinesArgs :
       logs_ret' = Some([file |-> "rclone", lines |-> lines,
                         body |-> api_logs(rclone_log, lines)])
  /\ UNCHANGED <<rclone_size, rclone_about, systemctl_active, systemctl_status,
                 psutil_ok, cloud_ret, quota_ret, service_ret, system_ret>>

\* ================================= get_cloud_stats and get_cloud_quota
\* a JSON value as json.loads yields it, tagged with its Python type
JInt(n) == [t |-> "int", n |-> n, s |-> ""]
JStr(s) == [t |-> "str", n |-> 0, s |-> s]
JNull == [t |-> "NoneType", n |-> 0, s |-> ""]

\* bool(v)
JTruthy(v) ==
  CASE v.t = "int" -> v.n # 0
    [] v.t = "str" -> v.s # ""
    [] OTHER -> FALSE

\* the standard output of the tool as json.loads takes it: text that is not
\* JSON, a JSON array, or a JSON object with its members
NoMembers == [k \in {} |-> JNull]
Malformed == [t |-> "malformed", fields |-> NoMembers]
JArray == [t |-> "list", fields |-> NoMembers]
JObject(f) == [t |-> "dict", fields |-> f]

\* how subprocess.run(..., timeout=...) ends: it raises TimeoutExpired, it
\* raises FileNotFoundError (the program cannot be started), or it returns
\* the completed process
TimeoutExpired == [kind |-> "TimeoutExpired", returncode |-> 0, stdout |-> Malformed]
CannotStart == [kind |-> "FileNotFoundError", returncode |-> 0, stdout |-> Malformed]
Exited(rc, out) == [kind |-> "exit", returncode |-> rc, stdout |-> out]

\* how the body of a try block ends
Raises == [exc |-> TRUE, ret |-> None]
Returns(v) == [exc |-> FALSE, ret |-> Some(v)]
FallThrough == [exc |-> FALSE, ret |-> None]

\* data.get(key, 0) on a dict
Get(data, key) ==
  IF key \in DOMAIN data.fields THEN data.fields[key] ELSE JInt(0)

\* round(v / (1024**3), 2) in hundredths, for an int v
RoundGb(v) == RoundDiv(100 * v.n, GiB)

\* lines 244-257: the try block of get_cloud_stats
cloud_stats_try(run) ==
  IF run.kind # "exit" THEN Raises
  ELSE IF run.returncode # 0 THEN FallThrough
  ELSE IF run.stdout.t # "dict" THEN Raises
  ELSE LET count == Get(run.stdout, "count")
           bytes == Get(run.stdout, "bytes")
       IN  IF bytes.t # "int" THEN Raises
           ELSE Returns([total_files |-> count,
                        total_size |-> bytes,
                        total_size_gb |-> RoundGb(bytes)])

\* line 261
CloudDefault ==
  [total_files |-> JInt(0), total_size |-> JInt(0), total_size_gb |-> 0]

get_cloud_stats(run) ==
  LET body == cloud_stats_try(run)
  IN  IF ~body.exc /\ ~IsNone(body.ret) THEN Val(body.ret) ELSE CloudDefault

\* `round(v / (1024**3), 2) if v else 0` raises for a truthy v that is no number
GbRaises(v) == JTruthy(v) /\ v.t # "int"
GbOrZero(v) == IF JTruthy(v) THEN RoundGb(v) ELSE 0

\* lines 316-337: the try block of get_cloud_quota
cloud_quota_try(run) ==
  IF run.kind # "exit" THEN Raises
  ELSE IF run.returncode # 0 THEN FallThrough
  ELSE IF run.stdout.t # "dict" THEN Raises
  ELSE LET total == Get(run.stdout, "total")
           used == Get(run.stdout, "used")
           free == Get(run.stdout, "free")
       IN  IF GbRaises(total) \/ GbRaises(used) \/ GbRaises(free) THEN Raises
           ELSE Returns([total |-> total,
                        used |-> used,
                        free |-> free,
                        total_gb |-> GbOrZero(total),
                        used_gb |-> GbOrZero(used),
                        free_gb |-> GbOrZero(free),
                        used_percent |->
                          IF JTruthy(total) /\ JTruthy(used)
                          THEN RoundDiv(used.n * 100 * 100, total.n)
                          ELSE 0])

\* lines 341-344
QuotaDefault ==
  [total |-> JInt(0), used |-> JInt(0), free |-> JInt(0),
   total_gb |-> 0, used_gb |-> 0, free_gb |-> 0, used_percent |-> 0]

get_cloud_quota(run) ==
  LET body == cloud_quota_try(run)
  IN  IF ~body.exc /\ ~IsNone(body.ret) THEN Val(body.ret) ELSE QuotaDefault

\* the JSON objects whose members are drawn, per key, from vals[key]
Objects(vals) ==
  UNION { { JObject(f) : f \in { g \in [D -> UNION {vals[k] : k \in DOMAIN vals}] :
                                   \A k \in D : g[k] \in vals[k] } } :
          D \in SUBSET (DOMAIN vals) }

\* outputs of `rclone size --json`
SizeVals ==
  [count |-> {JInt(0), JInt(12), JStr("12"), JNull},
   bytes |-> {JInt(0), JInt(16106127), JStr("15M"), JNull}]

\* outputs of `rclone about --json`
AboutVals ==
  [total |-> {JInt(0), JInt(16106127), JStr("15M"), JNull},
   used |-> {JInt(0), JInt(100000), JStr("x")},
   free |-> {JInt(16006127), JNull}]

\* the ways a run of the tool can end, given the objects it can print
Runs(objects) ==
  {TimeoutExpired, CannotStart}
    \cup {Exited(0, out) : out \in {Malformed, JArray} \cup objects}
    \cup {Exited(1, out) : out \in {Malformed, JObject(NoMembers)}}

SizeRuns == Runs(Objects(SizeVals))
AboutRuns == Runs(Objects(AboutVals))

\* the remote, the network or the installed tool changes
RcloneChanges ==
  /\ \/ rclone_size' \in SizeRuns /\ UNCHANGED rclone_about
     \/ rclone_about' \in AboutRuns /\ UNCHANGED rclone_size
  /\ cloud_ret' = None
  /\ quota_ret' = None
  /\ UNCHANGED <<logs_ret, systemctl_active, systemctl_status, psutil_ok,
                 service_ret, system_ret>>

\* a request calls get_cloud_stats
GetCloudStats ==
  /\ cloud_ret' = Some(get_cloud_stats(rclone_size))
  /\ UNCHANGED <<logs_ret, rclone_size, rclone_about, systemctl_active,
                 systemctl_status, psutil_ok, quota_ret, service_ret, system_ret>>

\* a request calls get_cloud_quota
GetCloudQuota ==
  /\ quota_ret' = Some(get_cloud_quota(rclone_about))
  /\ UNCHANGED <<logs_ret, rclone_size, rclone_about, systemctl_active,
                 systemctl_status, psutil_ok, cloud_ret, service_ret, system_ret>>

\* ===================================================== get_service_status
\* how a systemctl query ends; its standard output is text
TextTimeout == [kind |-> "TimeoutExpired", returncode |-> 0, stdout |-> <<>>]
TextCannotStart == [kind |-> "FileNotFoundError", returncode |-> 0, stdout |-> <<>>]
TextExited(rc, out) == [kind |-> "exit", returncode |-> rc, stdout |-> out]

\* the tokens of [\d.]+ : digits, or digits with a decimal point
IsNumber(tok) == IsDigits(tok) \/ tok \in {"12.5", "1.2"}

\* re.search(r'Main PID: (\d+)', text): group 1 of the leftmost match
SearchPid(text) ==
  LET S == {i \in 1..Len(text) : /\ text[i] = "Main PID:"
                                 /\ At(text, i + 1) = " "
                                 /\ IsDigits(At(text, i + 2))}
  IN  IF S = {} THEN None ELSE Some(text[Min(S) + 2])

\* re.search(r'Memory: ([\d.]+)([KMG])', text): groups 1 and 2
SearchMemory(text) ==
  LET S == {i \in 1..Len(text) : /\ text[i] = "Memory:"
                                 /\ At(text, i + 1) = " "
                                 /\ IsNumber(At(text, i + 2))
                                 /\ At(text, i + 3) \in {"K", "M", "G"}}
  IN  IF S = {} THEN None
      ELSE Some(<<text[Min(S) + 2], text[Min(S) + 3]>>)

\* where `Active: active \([^)]+\) since ` ends when it matches at i, else 0
SinceEnd(text, i) ==
  LET close == IndexFrom(text, i + 5, ")")
  IN  IF /\ text[i] = "Active:"
         /\ At(text, i + 1) = " "
         /\ At(text, i + 2) = "active"
         /\ At(text, i + 3) = " "
         /\ At(text, i + 4) = "("
         /\ close > i + 5
         /\ At(text, close + 1) = " "
         /\ At(text, close + 2) = "since"
         /\ At(text, close + 3) = " "
      THEN close + 3
      ELSE 0

\* re.search(r'Active: active \([^)]+\) since ([^;]+);', text): group 1
SearchUptime(text) ==
  LET Semi(i) == IndexFrom(text, SinceEnd(text, i) + 1, ";")
      S == {i \in 1..Len(text) : /\ SinceEnd(text, i) # 0
                                 /\ Semi(i) > SinceEnd(text, i) + 1}
  IN  IF S = {} THEN None
      ELSE Some(SubSeq(text, SinceEnd(text, Min(S)) + 1, Semi(Min(S)) - 1))

\* lines 146-182: both queries returned
ServiceRecord(active_out, status_text) ==
  LET is_active == Strip(active_out) = <<"active">>
      pid_match == SearchPid(status_text)
      mem_match == SearchMemory(status_text)
      uptime_match == SearchUptime(status_text)
  IN  [active |-> is_active,
       status |-> IF is_active THEN "running" ELSE "stopped",
       pid |-> IF ~IsNone(pid_match) THEN Some(IntOf(Val(pid_match))) ELSE None,
       memory |-> IF ~IsNone(mem_match) THEN Val(mem_match) ELSE <<"N/A">>,
       uptime |-> IF ~IsNone(uptime_match) THEN Val(uptime_match) ELSE <<"N/A">>]

\* lines 183-185: the except branch, e the exception of the query that raised
ServiceUnknown(e) == [active |-> FALSE, status |-> "unknown", error |-> e]

\* get_service_status with the second query outside the try block's reach
get_service_status_first_query_only(active_run, status_run) ==
  IF active_run.kind # "exit" THEN ServiceUnknown(active_run.kind)
  ELSE ServiceRecord(active_run.stdout, status_run.stdout)

get_service_status(active_run, status_run) ==
  IF active_run.kind # "exit" THEN ServiceUnknown(active_run.kind)
  ELSE IF status_run.kind # "exit" THEN ServiceUnknown(status_run.kind)
  ELSE ServiceRecord(active_run.stdout, status_run.stdout)

\* what `systemctl is-active` can answer (a blank spells the line end)
ActiveOutputs ==
  { TextExited(0, <<"active", " ">>), TextExited(0, <<"active">>),
    TextExited(3, <<"inactive", " ">>), TextExited(3, <<"activating", " ">>),
    TextExited(3, <<"failed", " ">>), TextExited(4, <<>>) }

\* the parts `systemctl status` prints, each in the forms it can take
ActiveParts ==
  { <<>>,
    <<"Active:", " ", "active", " ", "(", "running", ")", " ", "since", " ",
      "Mon 10:00", ";", " ", "2h ago", " ">>,
    <<"Active:", " ", "active", " ", "(", "running", ")", " ", "since", " ",
      "Mon 10:00", " ">>,
    <<"Active:", " ", "inactive", " ", "(", "dead", ")", " ">> }
PidParts ==
  { <<>>,
    <<"Main PID:", " ", "100", " ", "(python)", " ">>,
    <<"Main PID:", " ", "n/a", " ">> }
TaskParts == { <<>>, <<"Tasks:", " ", "3", ";", " ">> }
MemoryParts ==
  { <<>>,
    <<"Memory:", " ", "12.5", "M", " ">>,
    <<"Memory:", " ", "52", "B", " ">> }

StatusTexts ==
  { a \o q \o k \o m : a \in ActiveParts, q \in PidParts, k \in TaskParts,
                       m \in MemoryParts }

ActiveRuns == {TextTimeout, TextCannotStart} \cup ActiveOutputs
StatusRuns ==
  {TextTimeout, TextCannotStart}
    \cup {TextExited(0, text) : text \in StatusTexts}
    \cup {TextExited(3, text) : text \in StatusTexts}

\* the service, or systemd itself, changes
SystemctlChanges ==
  /\ \/ systemctl_active' \in ActiveRuns /\ UNCHANGED systemctl_status
     \/ systemctl_status' \in StatusRuns /\ UNCHANGED systemctl_active
  /\ service_ret' = None
  /\ UNCHANGED <<logs_ret, rclone_size, rclone_about, psutil_ok, cloud_ret,
                 quota_ret, system_ret>>

\* a request calls get_service_status
GetServiceStatus ==
  /\ service_ret' = Some(get_service_status(systemctl_active, systemctl_status))
  /\ UNCHANGED <<logs_ret, rclone_size, rclone_about, systemctl_active,
                 systemctl_status, psutil_ok, cloud_ret, quota_ret, system_ret>>

\* ======================================================== get_system_info
\* what psutil and os.getloadavg read: percents in tenths, load in hundredths
Readings ==
  [cpu_percent |-> 125, cpu_count |-> 4, load_avg |-> <<50, 20, 10>>,
   mem |-> [total |-> 16106127, available |-> 5368709, used |-> 10737418,
            percent |-> 667],
   disk |-> [total |-> 16106127, used |-> 100000, free |-> 16006127,
             percent |-> 6],
   net_io |-> [bytes_sent |-> 1100, bytes_recv |-> 200]]

\* lines 87-137: every query succeeded
SystemRecord(r) ==
  [cpu |-> [percent |-> r.cpu_percent, count |-> r.cpu_count,
            load_avg |-> r.load_avg],
   memory |-> [total |-> r.mem.total, available |-> r.mem.available,
               used |-> r.mem.used, percent |-> r.mem.percent,
               total_gb |-> RoundDiv(100 * r.mem.total, GiB),
               used_gb |-> RoundDiv(100 * r.mem.used, GiB),
               available_gb |-> RoundDiv(100 * r.mem.available, GiB)],
   disk |-> [total |-> r.disk.total, used |-> r.disk.used, free |-> r.disk.free,
             percent |-> r.disk.percent,
             total_gb |-> RoundDiv(100 * r.disk.total, GiB),
             used_gb |-> RoundDiv(100 * r.disk.used, GiB),
             free_gb |-> RoundDiv(100 * r.disk.free, GiB)],
   network |-> [bytes_sent |-> r.net_io.bytes_sent,
                bytes_recv |-> r.net_io.bytes_recv,
                bytes_sent_mb |-> RoundDiv(100 * r.net_io.bytes_sent, MiB),
                bytes_recv_mb |-> RoundDiv(100 * r.net_io.bytes_recv, MiB)]]

\* line 140: the empty dict
EmptyDict == [k \in {} |-> 0]

get_system_info(ok) == IF ok THEN SystemRecord(Readings) ELSE EmptyDict

\* /mnt/tg is mounted or unmounted, psutil starts or stops answering
PsutilChanges ==
  /\ psutil_ok' = ~psutil_ok
  /\ system_ret' = None
  /\ UNCHANGED <<logs_ret, rclone_size, rclone_about, systemctl_active,
                 systemctl_status, cloud_ret, quota_ret, service_ret>>

\* a request calls get_system_info
GetSystemInfo ==
  /\ system_ret' = Some(get_system_info(psutil_ok))
  /\ UNCHANGED <<logs_ret, rclone_size, rclone_about, systemctl_active,
                 systemctl_status, psutil_ok, cloud_ret, quota_ret, service_ret>>

\* no tool is installed, nothing was asked
ToolIdle ==
  /\ logs_ret = None
  /\ rclone_size = CannotStart
  /\ rclone_about = CannotStart
  /\ systemctl_active = TextCannotStart
  /\ systemctl_status = TextCannotStart
  /\ psutil_ok = TRUE
  /\ cloud_ret = None
  /\ quota_ret = None
  /\ service_ret = None
  /\ system_ret = None

\* ================================================ login, logout, sessions
\* browsers holding the session cookie the server last sent them
Browsers == {"b1", "b2"}

\* lines 26-28: USERS at start, one account ("initial-pw" spells its password)
InitialUsers == [u \in {"admin"} |-> "initial-pw"]

\* what data.get('username') and data.get('password') can yield: None when
\* the key is missing from the JSON body
UsernameInputs == {None, Some("admin"), Some("guest")}
PasswordInputs == {None, Some("initial-pw"), Some("changed-pw"), Some("short")}

\* len(password) >= 6
LongEnough(password) == password \in {"initial-pw", "changed-pw"}

AuthIdle ==
  /\ session = [b \in Browsers |-> None]
  /\ USERS = InitialUsers
  /\ by_login = [b \in Browsers |-> FALSE]
  /\ requests = 0
  /\ resp = None

\* mutant of login_required: the decorator lets every request through
login_required_open(b) == TRUE

\* lines 45-48: 'username' in session, else the 401 answer
login_required(b) == ~IsNone(session[b])

\* line 425: username in USERS and USERS[username] == password
CredentialsMatch(username, password) ==
  /\ ~IsNone(username)
  /\ Val(username) \in DOMAIN USERS
  /\ ~IsNone(password)
  /\ USERS[Val(username)] = Val(password)

Answer(b, route, code) == Some([browser |-> b, route |-> route, code |-> code])

\* POST /login
Login(b) ==
  /\ requests < MaxRequests
  /\ requests' = requests + 1
  /\ \E username \in UsernameInputs, password \in PasswordInputs :
       /\ IF CredentialsMatch(username, password)
          THEN /\ session' = [session EXCEPT ![b] = username]
               /\ resp' = Answer(b, "/login", 200)
          ELSE /\ UNCHANGED session
               /\ resp' = Answer(b, "/login", 401)
       /\ by_login' = [by_login EXCEPT ![b] =
            @ \/ \E u \in DOMAIN USERS :
                   username = Some(u) /\ password = Some(USERS[u])]
  /\ UNCHANGED USERS

\* POST /logout
Logout(b) ==
  /\ requests < MaxRequests
  /\ requests' = requests + 1
  /\ session' = [session EXCEPT ![b] = None]
  /\ by_login' = [by_login EXCEPT ![b] = FALSE]
  /\ resp' = Answer(b, "/logout", 200)
  /\ UNCHANGED USERS

\* GET /api/dashboard, served by thread t: of the functions the body calls
\* only get_network_stats changes the state of the process
ApiDashboard(b, t) ==
  /\ requests < MaxRequests
  /\ requests' = requests + 1
  /\ IF login_required(b)
     THEN /\ \A u \in Threads : pc[u] = "idle"
          /\ Begin(t)
          /\ resp' = Answer(b, "/api/dashboard", 200)
     ELSE /\ resp' = Answer(b, "/api/dashboard", 401)
          /\ UNCHANGED netvars
  /\ UNCHANGED <<session, USERS, by_login>>

\* POST /change-password; rewriting the source file can fail
ChangePassword(b) ==
  /\ requests < MaxRequests
  /\ requests' = requests + 1
  /\ \E old_password \in PasswordInputs, new_password \in PasswordInputs :
       IF ~login_required(b)
       THEN /\ resp' = Answer(b, "/change-password", 401)
            /\ UNCHANGED USERS
       ELSE LET username == session[b]
            IN  IF \/ IsNone(username)
                   \/ Val(username) \notin DOMAIN USERS
                   \/ Some(USERS[Val(username)]) # old_password
                THEN /\ resp' = Answer(b, "/change-password", 400)
                     /\ UNCHANGED USERS
                ELSE IF IsNone(new_password) \/ ~LongEnough(Val(new_password))
                THEN /\ resp' = Answer(b, "/change-password", 400)
                     /\ UNCHANGED USERS
                ELSE \/ /\ USERS' = [USERS EXCEPT ![Val(username)] = Val(new_password)]
                        /\ resp' = Answer(b, "/change-password", 200)
                     \/ /\ resp' = Answer(b, "/change-password", 500)
                        /\ UNCHANGED USERS
  /\ UNCHANGED <<session, by_login>>

\* ========================================================= specifications
\* a threaded server: the calls of different requests interleave
Init == NetInit /\ TextIdle /\ ToolIdle /\ AuthIdle

Next ==
  /\ \/ Tick
     \/ \E t \in Threads : Begin(t)
     \/ \E t \in Threads : NetStep(t)
  /\ UNCHANGED <<textvars, toolvars, authvars>>

Spec == Init /\ [][Next]_vars

\* a request enters while no other call is in flight
BeginSeq(t) ==
  /\ \A u \in Threads : pc[u] = "idle"
  /\ Begin(t)

\* a server that handles one request at a time
NextSeq ==
  /\ \/ Tick
     \/ \E t \in Threads : BeginSeq(t)
     \/ \E t \in Threads : NetStep(t)
  /\ UNCHANGED <<textvars, toolvars, authvars>>

SpecSeq == Init /\ [][NextSeq]_vars

\* get_sync_stats over growing logs
InitSync ==
  /\ NetInit
  /\ sync_log \in {None, Some(<<>>)}
  /\ rclone_log \in {None, Some(<<>>), Some(R_earlier)}
  /\ procs = {}
  /\ writes = 0
  /\ sync_ret = None
  /\ upload_ret = None
  /\ ToolIdle
  /\ AuthIdle

NextSync ==
  /\ \/ SyncLogWrite
     \/ RcloneLogWrite
     \/ GetSyncStats
  /\ UNCHANGED <<netvars, toolvars, authvars>>

SpecSync == InitSync /\ [][NextSync]_vars

\* get_upload_progress over a changing process table and a growing log
InitUpload ==
  /\ NetInit
  /\ sync_log = None
  /\ rclone_log \in {None, Some(<<>>)}
  /\ procs = {}
  /\ writes = 0
  /\ sync_ret = None
  /\ upload_ret = None
  /\ ToolIdle
  /\ AuthIdle

NextUpload ==
  /\ \/ RcloneLogWrite
     \/ ProcStart
     \/ ProcExit
     \/ GetUploadProgress
  /\ UNCHANGED <<netvars, toolvars, authvars>>

SpecUpload == InitUpload /\ [][NextUpload]_vars

\* the log endpoints over a growing sync log
InitLogs ==
  /\ NetInit
  /\ sync_log \in {None, Some(<<>>)}
  /\ rclone_log \in {None, Some(R_earlier)}
  /\ procs = {}
  /\ writes = 0
  /\ sync_ret = None
  /\ upload_ret = None
  /\ ToolIdle
  /\ AuthIdle

NextLogs ==
  \/ /\ SyncLogWrite \/ RcloneLogWrite
     /\ logs_ret' = None
     /\ UNCHANGED <<rclone_size, rclone_about, systemctl_active,
                    systemctl_status, psutil_ok, cloud_ret, quota_ret,
                    service_ret, system_ret>>
     /\ UNCHANGED <<netvars, authvars>>
  \/ /\ ApiLogsSync \/ ApiLogsRclone
     /\ UNCHANGED <<netvars, textvars, authvars>>

SpecLogs == InitLogs /\ [][NextLogs]_vars

\* the cloud statistics under every way the tool can end
InitCloud ==
  /\ NetInit
  /\ TextIdle
  /\ ToolIdle
  /\ AuthIdle

NextCloud ==
  /\ \/ RcloneChanges
     \/ GetCloudStats
     \/ GetCloudQuota
  /\ UNCHANGED <<netvars, textvars, authvars>>

SpecCloud == InitCloud /\ [][NextCloud]_vars

\* the probes of the host under every way their queries can end
InitProbes ==
  /\ NetInit
  /\ TextIdle
  /\ ToolIdle
  /\ AuthIdle

NextProbes ==
  /\ \/ SystemctlChanges
     \/ PsutilChanges
     \/ GetServiceStatus
     \/ GetSystemInfo
  /\ UNCHANGED <<netvars, textvars, authvars>>

SpecProbes == InitProbes /\ [][NextProbes]_vars

\* logins, logouts and guarded requests, handled one at a time
InitAuth ==
  /\ NetInit
  /\ TextIdle
  /\ ToolIdle
  /\ AuthIdle

NextAuth ==
  \/ /\ \/ \E b \in Browsers : Login(b)
        \/ \E b \in Browsers : Logout(b)
        \/ \E b \in Browsers : ChangePassword(b)
     /\ UNCHANGED <<netvars, textvars, toolvars>>
  \/ /\ \E b \in Browsers, t \in Threads : ApiDashboard(b, t)
     /\ UNCHANGED <<textvars, toolvars>>
  \/ /\ \E t \in Threads : NetStep(t)
     /\ UNCHANGED <<textvars, toolvars, authvars>>

SpecAuth == InitAuth /\ [][NextAuth]_vars

\* ================================================================= claims
Max(S) == CHOOSE x \in S : \A y \in S : x >= y

\* C1: a call that sees a cumulative counter smaller than the one of the
\* stored previous sample, with positive elapsed time, reports zero for that
\* speed; no returned speed (bytes per second or Mbps) is negative.
C1_ResetYieldsZero ==
  \A t \in Threads :
    pc[t] = "ret" =>
      LET st == loc[t].stats
          io == loc[t].current_net_io
      IN  /\ st.upload_speed >= 0
          /\ st.download_speed >= 0
          /\ st.upload_speed_mbps >= 0
          /\ st.download_speed_mbps >= 0
          /\ (loc[t].rated /\ io.bytes_sent < Val(loc[t].prev_sent))
               => st.upload_speed = 0
          /\ (loc[t].rated /\ io.bytes_recv < Val(loc[t].prev_recv))
               => st.download_speed = 0

\* C2: every call that computes a rate uses a previous timestamp and previous
\* counters (sent and received) written by one and the same earlier call.
C2_PairFromOneCall ==
  \A t \in Threads :
    loc[t].rated =>
      /\ loc[t].src_time = loc[t].src_sent
      /\ loc[t].src_sent = loc[t].src_recv

\* C3: when a call that obtained current counters returns, the stored previous
\* sample is exactly that call's counters and timestamp.
C3_StoredIsOwnSample ==
  [][ \A t \in Threads :
        (pc[t] = "l301" /\ pc'[t] = "ret") =>
          /\ last_net_io' = Some(loc[t].current_net_io)
          /\ last_net_io_time' = Some(loc[t].current_time) ]_vars

\* C4: a call made when no previous sample is stored, or when the elapsed time
\* since the stored sample is not strictly positive, reports zero speeds (bytes
\* per second and Mbps) and the current cumulative counters as totals.
C4_ZeroWithoutBaseline ==
  \A t \in Threads :
    pc[t] = "l300" =>
      LET st == loc[t].stats
          io == loc[t].current_net_io
      IN  ( \/ IsNone(last_net_io)
            \/ IsNone(last_net_io_time)
            \/ loc[t].current_time - Val(last_net_io_time) <= 0 )
          => /\ st.upload_speed = 0
             /\ st.download_speed = 0
             /\ st.upload_speed_mbps = 0
             /\ st.download_speed_mbps = 0
             /\ st.total_sent = io.bytes_sent
             /\ st.total_recv = io.bytes_recv

\* C4 witness: a call finds a stored sample taken at the same instant, with
\* other counters, and reports zero speed and its own totals
C4_Witness ==
  \E t \in Threads :
    /\ pc[t] = "l300"
    /\ ~IsNone(last_net_io)
    /\ ~IsNone(last_net_io_time)
    /\ loc[t].current_time - Val(last_net_io_time) <= 0
    /\ Val(last_net_io) = Counters(100, 200)
    /\ loc[t].current_net_io = Counters(1100, 200)
    /\ loc[t].stats.upload_speed = 0
    /\ loc[t].stats.total_sent = 1100

\* C5: for consecutive calls with samples (s0, r0) at t0 and (s1, r1) at t1,
\* t1 > t0, s1 >= s0, r1 >= r0, the second call reports the integer part of
\* (s1 - s0) / (t1 - t0) and of (r1 - r0) / (t1 - t0); (100,200) then
\* (1100,200) ten seconds later gives 100 and 0.
C5_RateIsDeltaOverElapsed ==
  \A t \in Threads :
    (pc[t] = "l300" /\ ~IsNone(last_net_io) /\ ~IsNone(last_net_io_time)) =>
      LET st == loc[t].stats
          s1 == loc[t].current_net_io.bytes_sent
          r1 == loc[t].current_net_io.bytes_recv
          s0 == Val(last_net_io).bytes_sent
          r0 == Val(last_net_io).bytes_recv
          dt == loc[t].current_time - Val(last_net_io_time)
      IN  /\ (dt > 0 /\ s1 >= s0 /\ r1 >= r0)
               => /\ st.upload_speed = (s1 - s0) \div dt
                  /\ st.download_speed = (r1 - r0) \div dt
          /\ (dt = 10 /\ s0 = 100 /\ r0 = 200 /\ s1 = 1100 /\ r1 = 200)
               => /\ st.upload_speed = 100
                  /\ st.download_speed = 0

\* C5 witness: the example of the specification
C5_Witness ==
  \E t \in Threads :
    /\ pc[t] = "l300"
    /\ last_net_io = Some(Counters(100, 200))
    /\ ~IsNone(last_net_io_time)
    /\ loc[t].current_time - Val(last_net_io_time) = 10
    /\ loc[t].current_net_io = Counters(1100, 200)
    /\ loc[t].stats.upload_speed = 100
    /\ loc[t].stats.download_speed = 0

\* a running process named rclone with move, copy or sync among its arguments
TransferRunning ==
  \E p \in procs :
    /\ p.name = "rclone"
    /\ \E i \in 1..Len(p.cmdline) : p.cmdline[i] \in {"move", "copy", "sync"}

\* the 50-line tail get_upload_progress reads
ProgressTailNow == parse_log_file(rclone_log, ProgressTail)

\* the lines of that tail that parse as a 'Transferred:' progress line
ProgressLinesNow ==
  {i \in 1..Len(ProgressTailNow) :
     /\ Contains2(ProgressTailNow[i], "Transferred", ":")
     /\ ~IsNone(SearchTransferred(ProgressTailNow[i]))}

\* the lines of that tail that yield a filename
FileLinesNow ==
  {i \in 1..Len(ProgressTailNow) :
     /\ Contains(ProgressTailNow[i], "INFO")
     /\ ~IsNone(SearchFile(ProgressTailNow[i]))}

\* C6: with a transfer process running and several parseable 'Transferred:'
\* lines in the tail, the reported progress and speed are those of the most
\* recent such line.
C6_NewestTransferredWins ==
  (~IsNone(upload_ret) /\ TransferRunning /\ ProgressLinesNow # {}
     /\ Val(upload_ret).is_uploading) =>
    LET m == Val(SearchTransferred(ProgressTailNow[Max(ProgressLinesNow)]))
    IN  /\ Val(upload_ret).progress = IntOf(m.percent)
        /\ Val(upload_ret).speed = Strip(m.speed)

\* C7: with a transfer process running and a tail that yields neither a
\* filename nor a progress value, the result is still is_uploading = true with
\* the placeholder current_file and progress 0.
C7_TransferWithoutProgressIsUploading ==
  (~IsNone(upload_ret) /\ TransferRunning
     /\ ProgressLinesNow = {} /\ FileLinesNow = {}) =>
    /\ Val(upload_ret).is_uploading = TRUE
    /\ Val(upload_ret).current_file = Some(<<"processing...">>)
    /\ Val(upload_ret).progress = 0

RecentScanNow == Reverse(parse_log_file(rclone_log, RcloneTail))

\* an INFO completion line: tagged INFO and matching ': <name>: (Copied|Moved)'
IsCompletionLine(line) == Contains(line, "INFO") /\ ~IsNone(SearchCompleted(line))

CompletionsNow == SelectSeq(RecentScanNow, IsCompletionLine)

\* C9: recent_files has at most 10 entries and consists exactly of the first
\* (up to 10) INFO completion lines met scanning the tail newest to oldest,
\* in that order, each with its filename and action.
C9_RecentFilesNewestFirst ==
  ~IsNone(sync_ret) =>
    LET rf == Val(sync_ret).recent_files
    IN  /\ Len(rf) <= 10
        /\ Len(rf) = IF Len(CompletionsNow) < 10 THEN Len(CompletionsNow) ELSE 10
        /\ \A i \in 1..Len(rf) :
             /\ rf[i].name = Strip(Val(SearchCompleted(CompletionsNow[i])).name)
             /\ rf[i].action = Val(SearchCompleted(CompletionsNow[i])).action

\* C9 witness: more than 10 completion lines in the tail, the newest a copy of
\* a.txt logged after the move of b.txt; 10 entries are returned, a.txt first
C9_Witness ==
  /\ ~IsNone(sync_ret)
  /\ Len(CompletionsNow) > 10
  /\ Len(Val(sync_ret).recent_files) = 10
  /\ Val(sync_ret).recent_files[1] = [name |-> <<"a.txt">>, action |-> "Copied"]
  /\ Val(sync_ret).recent_files[2] = [name |-> <<"b.txt">>, action |-> "Moved"]
  /\ RecentScanNow[1] = R_nomatch

\* the 500-line tail of the sync log, oldest line first
SyncTailNow == parse_log_file(sync_log, SyncTail)

\* the success lines of that tail that carry a bracketed timestamp
StampedSuccessNow ==
  {i \in 1..Len(SyncTailNow) :
     /\ Contains(SyncTailNow[i], "SYNC_OK")
     /\ ~IsNone(SearchBracket(SyncTailNow[i]))}

\* C10: last_sync is the bracketed timestamp of the earliest success line that
\* carries one in the oldest-to-newest scan; later success lines do not change
\* it; it stays absent when no success line carries a bracketed timestamp.
C10_LastSyncFirstWins ==
  ~IsNone(sync_ret) =>
    IF StampedSuccessNow = {}
    THEN Val(sync_ret).last_sync = None
    ELSE Val(sync_ret).last_sync = SearchBracket(SyncTailNow[Min(StampedSuccessNow)])

\* C10 witness: success lines stamped 10:00 and then 11:00; last_sync is 10:00
C10_Witness ==
  /\ ~IsNone(sync_ret)
  /\ \E i, j \in StampedSuccessNow :
       /\ i < j
       /\ i = Min(StampedSuccessNow)
       /\ SyncTailNow[i] = S_ok1
       /\ SyncTailNow[j] = S_ok2
  /\ Val(sync_ret).last_sync = Some(<<"2024-01-01", " ", "10", ":", "00">>)


\* the file a log response was read from, a missing file holding no line
LogFileNow ==
  LET file == IF Val(logs_ret).file = "sync" THEN sync_log ELSE rclone_log
  IN  IF IsNone(file) THEN <<>> ELSE Val(file)

\* C11: for every file content and every max_lines >= 0 (0 included, and
\* any value passed through 'lines'), the log response holds exactly the
\* trailing min(max_lines, length of the file) lines of the file, oldest
\* first, each stripped of surrounding whitespace; it never holds more than
\* max_lines entries.
C11_TrailingLines ==
  (~IsNone(logs_ret) /\ Val(logs_ret).lines >= 0) =>
     LET max_lines == Val(logs_ret).lines
         file == LogFileNow
         n == Min({max_lines, Len(file)})
         logs == Val(logs_ret).body.logs
     IN  /\ Len(logs) = n
         /\ Len(logs) <= max_lines
         /\ \A i \in 1..n : logs[i] = Strip(file[Len(file) - n + i])

\* exit code 0 with a JSON object all of whose members are numbers
WellFormed(run) ==
  /\ run.kind = "exit"
  /\ run.returncode = 0
  /\ run.stdout.t = "dict"
  /\ \A k \in DOMAIN run.stdout.fields : run.stdout.fields[k].t = "int"

\* C12: get_cloud_stats and get_cloud_quota never raise; for every way the
\* rclone invocation ends other than exit code 0 with well-formed output
\* (non-zero exit, timeout, failure to start, malformed or wrongly-typed
\* JSON), each returns its all-zero default record.
C12_DefaultOnEveryFailure ==
  /\ (~IsNone(cloud_ret) /\ ~WellFormed(rclone_size)) =>
        Val(cloud_ret) = [total_files |-> JInt(0), total_size |-> JInt(0),
                          total_size_gb |-> 0]
  /\ (~IsNone(quota_ret) /\ ~WellFormed(rclone_about)) =>
        Val(quota_ret) = [total |-> JInt(0), used |-> JInt(0), free |-> JInt(0),
                          total_gb |-> 0, used_gb |-> 0, free_gb |-> 0,
                          used_percent |-> 0]

\* C13: get_service_status never raises.  If either of its two queries
\* (liveness, detailed status) times out or cannot be started, it returns
\* active = false and status = 'unknown'.  Otherwise active is true exactly
\* when the liveness output, stripped of surrounding whitespace, is 'active',
\* status is 'running' iff active and 'stopped' otherwise, and pid is absent,
\* memory 'N/A', uptime 'N/A' when their patterns do not match.
C13_ServiceStatus ==
  ~IsNone(service_ret) =>
     LET r == Val(service_ret)
     IN  IF systemctl_active.kind # "exit" \/ systemctl_status.kind # "exit"
         THEN r.active = FALSE /\ r.status = "unknown"
         ELSE /\ r.active = (Strip(systemctl_active.stdout) = <<"active">>)
              /\ r.status = (IF r.active THEN "running" ELSE "stopped")
              /\ IsNone(SearchPid(systemctl_status.stdout)) => r.pid = None
              /\ IsNone(SearchMemory(systemctl_status.stdout)) => r.memory = <<"N/A">>
              /\ IsNone(SearchUptime(systemctl_status.stdout)) => r.uptime = <<"N/A">>

\* the liveness query answered 'active', the status query timed out
C13_Witness ==
  /\ ~IsNone(service_ret)
  /\ systemctl_active = TextExited(0, <<"active", " ">>)
  /\ systemctl_status = TextTimeout
  /\ Val(service_ret).status = "unknown"

\* C14: every aggregation operation returns a complete result on every
\* path: the record of a failure path has the same set of fields as the
\* record of the success path (stated here for get_service_status and
\* get_system_info).
C14_SameFieldsOnEveryPath ==
  /\ ~IsNone(service_ret) =>
       DOMAIN Val(service_ret) = {"active", "status", "pid", "memory", "uptime"}
  /\ ~IsNone(system_ret) =>
       DOMAIN Val(system_ret) = {"cpu", "memory", "disk", "network"}

\* C15: success_count is the number of lines of the sync-log tail holding
\* the success marker and error_count the number of lines holding 'ERROR',
\* counted independently: a line with both markers counts in both.
C15_CountsIndependent ==
  ~IsNone(sync_ret) =>
     /\ Val(sync_ret).success_count =
          Cardinality({i \in 1..Len(SyncTailNow) : Contains(SyncTailNow[i], "SYNC_OK")})
     /\ Val(sync_ret).error_count =
          Cardinality({i \in 1..Len(SyncTailNow) : Contains(SyncTailNow[i], "ERROR")})

\* a tail with a line holding both markers, counted in both counts
C15_Witness ==
  /\ ~IsNone(sync_ret)
  /\ \E i \in 1..Len(SyncTailNow) : SyncTailNow[i] = S_both
  /\ \E i \in 1..Len(SyncTailNow) : SyncTailNow[i] = S_err
  /\ Val(sync_ret).success_count = 1
  /\ Val(sync_ret).error_count = 2

\* what line i of the sync-log tail adds to a total: the named group of the
\* moved pattern when the line holds the success marker and matches, else 0
MovedPart(i, group) ==
  LET log == SyncTailNow[i]
  IN  IF Contains(log, "SYNC_OK") /\ ~IsNone(SearchMoved(log))
      THEN IF group = "file_count" THEN Val(SearchMoved(log)).file_count
           ELSE Val(SearchMoved(log)).size_mb
      ELSE 0

RECURSIVE MovedSum(_, _)
MovedSum(n, group) ==
  IF n = 0 THEN 0 ELSE MovedSum(n - 1, group) + MovedPart(n, group)

\* C18: total_synced and total_size_mb are the sums of the file counts and
\* of the MB sizes over exactly the lines of the sync-log tail that hold the
\* success marker and match the moved pattern; a line without the success
\* marker (an ERROR-only line with a moved fragment included) adds nothing;
\* both totals are 0 when the log is missing.
C18_TotalsOverSuccessLines ==
  ~IsNone(sync_ret) =>
     /\ Val(sync_ret).total_synced = MovedSum(Len(SyncTailNow), "file_count")
     /\ Val(sync_ret).total_size_mb = MovedSum(Len(SyncTailNow), "size_mb")
     /\ IsNone(sync_log) =>
          Val(sync_ret).total_synced = 0 /\ Val(sync_ret).total_size_mb = 0

\* two matching success lines and an ERROR-only line with a moved fragment
C18_Witness ==
  /\ ~IsNone(sync_ret)
  /\ \E i \in 1..Len(SyncTailNow) : SyncTailNow[i] = S_ok1
  /\ \E i \in 1..Len(SyncTailNow) : SyncTailNow[i] = S_ok3
  /\ \E i \in 1..Len(SyncTailNow) : SyncTailNow[i] = S_err
  /\ Val(sync_ret).total_synced = 4
  /\ Val(sync_ret).total_size_mb = 70

\* the filename line i of the tail yields: group 1 of the pattern, stripped
FileNameNow(i) == Strip(Val(SearchFile(ProgressTailNow[i])))

\* the lines of the tail that yield a filename that is not empty
NamedFileLinesNow == {i \in FileLinesNow : FileNameNow(i) # <<>>}

\* C16: with a transfer process running, if a 'Transferred:' line was parsed
\* (whatever its percent, 0 included) or a filename was parsed, the result
\* has is_uploading = true, progress a parsed percent (0 if none was parsed)
\* and current_file a parsed filename (the placeholder if none was parsed).
C16_UploadingWhenParsed ==
  (~IsNone(upload_ret) /\ TransferRunning
     /\ (ProgressLinesNow # {} \/ NamedFileLinesNow # {})) =>
    /\ Val(upload_ret).is_uploading = TRUE
    /\ IF ProgressLinesNow = {} THEN Val(upload_ret).progress = 0
       ELSE \E i \in ProgressLinesNow :
              Val(upload_ret).progress =
                IntOf(Val(SearchTransferred(ProgressTailNow[i])).percent)
    /\ IF NamedFileLinesNow = {}
       THEN Val(upload_ret).current_file = Some(<<"processing...">>)
       ELSE \E i \in NamedFileLinesNow :
              Val(upload_ret).current_file = Some(FileNameNow(i))

C20_StoredTimeMonotonic ==
  [][ (~IsNone(last_net_io_time) /\ ~IsNone(last_net_io_time')) =>
         Val(last_net_io_time') >= Val(last_net_io_time) ]_vars

\* C19: for every sequence of login, logout and guarded requests, a handler
\* behind login_required runs its body only for a browser whose session
\* holds a username set by a login whose credentials matched USERS and not
\* since removed by a logout; every other guarded request is answered 401
\* and leaves the stored network sample and USERS unchanged.
C19_BodyOnlyWhenLoggedIn ==
  [][ \A b \in Browsers :
        ( /\ requests' = requests + 1
          /\ Val(resp').browser = b
          /\ Val(resp').route \in {"/api/dashboard", "/change-password"} ) =>
            IF by_login[b]
            THEN Val(resp').code # 401
            ELSE /\ Val(resp').code = 401
                 /\ UNCHANGED <<last_net_io, last_net_io_time, USERS, calls, pc>> ]_vars

\* a guarded request of a browser that holds no session owed to a login is
\* refused, after another request stored a sample and changed a password
C19_Witness ==
  /\ ~IsNone(resp)
  /\ Val(resp).route = "/api/dashboard"
  /\ Val(resp).code = 401
  /\ ~by_login[Val(resp).browser]
  /\ ~IsNone(last_net_io_time)
  /\ USERS # InitialUsers

=============================================================================
